---- MODULE Spec2Model ----
(***************************************************************************)
(* Model of the quick-stats patch handler (src/lambda_function.py):        *)
(* the path resolver, the five patch operations, deep merge, and the       *)
(* read / check / mutate / write protocol of lambda_handler around one     *)
(* JSON blob in the object store.                                          *)
(*                                                                         *)
(* JSON values are tagged records:                                         *)
(*   [t |-> "null"]            None                                        *)
(*   [t |-> "bool", b |-> _]   True / False (a Python bool is an int)      *)
(*   [t |-> "num",  n |-> _]   int                                         *)
(*   [t |-> "str",  s |-> _]   str                                         *)
(*   [t |-> "arr",  e |-> _]   list, e a sequence of values                *)
(*   [t |-> "obj",  f |-> _]   dict, f a function from keys to values      *)
(* A dict key is a string.  The code also stores int keys in dicts (a      *)
(* final index segment applied to a dict parent); the int key i is written *)
(* IntKey(i) = "#i", which is different from the string key "i" exactly as *)
(* 0 and "0" are different keys of a Python dict.                          *)
(***************************************************************************)
EXTENDS Integers, Sequences, FiniteSets, TLC

\* ------------------------------------------------------------------------
\* Bounds of the model
\* ------------------------------------------------------------------------
\* longest path, in segments, of an operation
MaxPathLen == 3
\* most operations applied in a row to one document (OpSpec)
MaxSteps == 2
\* most operations in the ops list of one request (Spec)
MaxOps == 2

\* ------------------------------------------------------------------------
\* JSON values
\* ------------------------------------------------------------------------
Null == [t |-> "null"]
Bool(b) == [t |-> "bool", b |-> b]
Num(n) == [t |-> "num", n |-> n]
Str(s) == [t |-> "str", s |-> s]
Arr(e) == [t |-> "arr", e |-> e]
Obj(f) == [t |-> "obj", f |-> f]
EmptyObj == Obj([k \in {} |-> Null])
EmptyArr == Arr(<< >>)
\* op.get("value") / op.get("by") when the key is not in the op
Missing == [t |-> "missing"]

\* {k: v}
Obj1(k, v) == Obj([x \in {k} |-> v])
\* {k1: v1, k2: v2}
Obj2(k1, v1, k2, v2) == Obj([x \in {k1, k2} |-> IF x = k1 THEN v1 ELSE v2])
\* d[k] = v on the key-to-value function of a dict
SetKey(f, k, v) == [x \in (DOMAIN f) \cup {k} |-> IF x = k THEN v ELSE f[x]]
\* d.pop(k, None) on the key-to-value function of a dict
DelKey(f, k) == [x \in (DOMAIN f) \ {k} |-> f[x]]

\* isinstance(v, (int, float)); bool is a subclass of int
IsNumber(v) == v.t \in {"num", "bool"}
\* the int a numeric value stands for in arithmetic (True is 1, False is 0)
NumVal(v) == IF v.t = "bool" THEN (IF v.b THEN 1 ELSE 0) ELSE v.n

\* ------------------------------------------------------------------------
\* Path utilities
\* ------------------------------------------------------------------------
\* The fragments a path string is made of are drawn from this alphabet;
\* "" is the empty fragment that path.split(".") yields around dots.
\* (int() also parses signed and padded digit strings such as "-1"; the
\* alphabet holds the non-negative indexes only.)
FieldSegs == {"a", "b"}
IndexSegs == {"0", "1"}
Segs == FieldSegs \cup IndexSegs

\* _is_int_like: int(s) parses
is_int_like(s) == s \in IndexSegs
\* int(s)
ToInt(s) == IF s = "0" THEN 0 ELSE 1
\* the int key i of a dict
IntKey(i) == IF i = 0 THEN "#0" ELSE "#1"
\* the string json.dumps writes for a dict key
DumpKey(k) == IF k = "#0" THEN "0" ELSE IF k = "#1" THEN "1" ELSE k

\* A path as given in an op: isStr is FALSE when "path" is missing or not
\* a string; frags is path.strip().split(".") (<<"">> for a blank string).
NoPath == [isStr |-> FALSE, frags |-> << >>]
PathOf(frags) == [isStr |-> TRUE, frags |-> frags]
\* not isinstance(path, str) or not path.strip()
PathBlank(path) == (~path.isStr) \/ path.frags = <<"">>

\* [seg for seg in frags if seg != ""]
RECURSIVE NonEmptyFrags(_)
NonEmptyFrags(frags) ==
    IF frags = << >> THEN << >>
    ELSE IF Head(frags) = "" THEN NonEmptyFrags(Tail(frags))
    ELSE <<Head(frags)>> \o NonEmptyFrags(Tail(frags))

\* _split_path: raises ValueError on a missing or blank path
split_path(path) ==
    IF PathBlank(path) THEN [err |-> "error", segments |-> << >>]
    ELSE [err |-> "ok", segments |-> NonEmptyFrags(path.frags)]

\* ------------------------------------------------------------------------
\* Positions inside a value
\* ------------------------------------------------------------------------
\* A location is a sequence of steps, each a dict key or a list index.
KeyStep(k) == [k |-> "key", s |-> k]
IdxStep(i) == [k |-> "idx", i |-> i]

\* the value reached from v along loc (the location exists)
RECURSIVE GetAt(_, _)
GetAt(v, loc) ==
    IF loc = << >> THEN v
    ELSE IF Head(loc).k = "key" THEN GetAt(v.f[Head(loc).s], Tail(loc))
    ELSE GetAt(v.e[Head(loc).i + 1], Tail(loc))

\* v with the value at loc replaced by new (an in-place mutation of the
\* container the location refers to)
RECURSIVE PutAt(_, _, _)
PutAt(v, loc, new) ==
    IF loc = << >> THEN new
    ELSE IF Head(loc).k = "key"
         THEN Obj([v.f EXCEPT ![Head(loc).s] = PutAt(v.f[Head(loc).s], Tail(loc), new)])
    ELSE Arr([v.e EXCEPT ![Head(loc).i + 1] = PutAt(v.e[Head(loc).i + 1], Tail(loc), new)])

\* lst extended by n copies of filler
Padded(lst, n, filler) == lst \o [j \in 1..n |-> filler]

\* lst without its element at 0-based index i (list.pop(i))
RemoveAt(lst, i) == SubSeq(lst, 1, i) \o SubSeq(lst, i + 2, Len(lst))

\* ------------------------------------------------------------------------
\* _get_parent_and_key (create=True, the only way _apply_op calls it)
\* ------------------------------------------------------------------------
\* The traversal keeps a reference `curr` into the document and mutates the
\* containers it walks through in place.  A walk state w records
\*   root : the tree `curr` lives in,
\*   loc  : where `curr` is inside root,
\*   att  : whether root is the caller's document; when the code rebinds the
\*          local name (`curr = {}`, `curr = curr_list`) the fresh container
\*          is not linked into the document, and from then on root is that
\*          fresh container and att is FALSE,
\*   doc  : the caller's document as it was left when the walk detached.
WalkStart(doc) == [doc |-> doc, root |-> doc, loc |-> << >>, att |-> TRUE]
\* the caller's document after the walk
DocOf(w) == IF w.att THEN w.root ELSE w.doc
\* the fresh container stored into the document where the walk stands
ReplaceInPlace(w, fresh) == [w EXCEPT !.root = PutAt(w.root, w.loc, fresh)]

\* `curr = <fresh>`: rebinding the local name
Detach(w, fresh) == [doc |-> DocOf(w), root |-> fresh, loc |-> << >>, att |-> FALSE]

\* the filler appended while a list is too short (line 180, create=True)
ListFiller(next_is_index) == IF next_is_index THEN EmptyObj ELSE Null
\* what replaces a None list slot (line 182: both branches are {})
SlotContainer(next_is_index) == IF next_is_index THEN EmptyObj ELSE EmptyObj
\* what a missing or None dict entry becomes (line 193)
EntryContainer(next_is_index) == IF next_is_index THEN EmptyArr ELSE EmptyObj

\* one iteration of the loop, on an index segment (lines 169-183)
IndexStep(w, seg, next_is_index) ==
    LET idx == ToInt(seg)
        w1 == IF GetAt(w.root, w.loc).t # "arr" THEN Detach(w, EmptyArr) ELSE w
        lst == GetAt(w1.root, w1.loc).e
        ext == IF Len(lst) <= idx
               THEN Padded(lst, idx + 1 - Len(lst), ListFiller(next_is_index))
               ELSE lst
        fixed == IF ext[idx + 1].t = "null"
                 THEN [ext EXCEPT ![idx + 1] = SlotContainer(next_is_index)]
                 ELSE ext
    IN [w1 EXCEPT !.root = PutAt(w1.root, w1.loc, Arr(fixed)),
                  !.loc = Append(w1.loc, IdxStep(idx))]

\* one iteration of the loop, on a field segment (lines 184-196)
FieldStep(w, seg, next_is_index) ==
    LET w1 == IF GetAt(w.root, w.loc).t # "obj" THEN Detach(w, EmptyObj) ELSE w
        f == GetAt(w1.root, w1.loc).f
        f2 == IF seg \notin DOMAIN f \/ f[seg].t = "null"
              THEN SetKey(f, seg, EntryContainer(next_is_index))
              ELSE f
    IN [w1 EXCEPT !.root = PutAt(w1.root, w1.loc, Obj(f2)),
                  !.loc = Append(w1.loc, KeyStep(seg))]

\* the loop over segments[:-1], from iteration i on
RECURSIVE Traverse(_, _, _)
Traverse(w, segments, i) ==
    IF i >= Len(segments) THEN w
    ELSE LET seg == segments[i]
             next_is_index == is_int_like(segments[i + 1])
         IN Traverse(IF is_int_like(seg)
                     THEN IndexStep(w, seg, next_is_index)
                     ELSE FieldStep(w, seg, next_is_index),
                     segments, i + 1)

\* _get_parent_and_key(root, segments, create=True): the walk state whose
\* current position is the parent, and the last segment; ValueError when
\* segments is empty
get_parent_and_key(root, segments) ==
    IF segments = << >>
    THEN [err |-> "error", w |-> WalkStart(root), last |-> ""]
    ELSE [err |-> "ok", w |-> Traverse(WalkStart(root), segments, 1),
          last |-> segments[Len(segments)]]

\* the key `last` is when used on a dict: an int for an index segment
LastKey(last) == IF is_int_like(last) THEN IntKey(ToInt(last)) ELSE last

\* ------------------------------------------------------------------------
\* _deep_merge
\* ------------------------------------------------------------------------
RECURSIVE deep_merge(_, _)
deep_merge(dst, src) ==
    Obj([k \in (DOMAIN dst.f) \cup (DOMAIN src.f) |->
          IF k \in DOMAIN src.f
          THEN IF k \in DOMAIN dst.f /\ dst.f[k].t = "obj" /\ src.f[k].t = "obj"
               THEN deep_merge(dst.f[k], src.f[k])
               ELSE src.f[k]
          ELSE dst.f[k]])

\* ------------------------------------------------------------------------
\* _apply_op
\* ------------------------------------------------------------------------
Kinds == {"set", "inc", "delete", "merge", "append"}

\* get_current(): the value at the final location; int(last) raises
\* ValueError when the parent is a list and last is a field segment
get_current(parent, last) ==
    IF parent.t = "obj"
    THEN [err |-> "ok",
          val |-> IF LastKey(last) \in DOMAIN parent.f THEN parent.f[LastKey(last)] ELSE Null]
    ELSE IF parent.t = "arr"
    THEN IF ~is_int_like(last) THEN [err |-> "error", val |-> Null]
         ELSE [err |-> "ok",
               val |-> IF ToInt(last) < Len(parent.e) THEN parent.e[ToInt(last) + 1] ELSE Null]
    ELSE [err |-> "ok", val |-> Null]

\* set_current(value): the parent after the write
set_current(parent, last, value) ==
    IF parent.t = "obj"
    THEN [err |-> "ok", parent |-> Obj(SetKey(parent.f, LastKey(last), value))]
    ELSE IF parent.t = "arr"
    THEN IF ~is_int_like(last) THEN [err |-> "error", parent |-> parent]
         ELSE LET idx == ToInt(last)
                  ext == IF Len(parent.e) <= idx
                         THEN Padded(parent.e, idx + 1 - Len(parent.e), Null)
                         ELSE parent.e
              IN [err |-> "ok", parent |-> Arr([ext EXCEPT ![idx + 1] = value])]
    ELSE [err |-> "validation", parent |-> parent]

\* kind == "set" (lines 251-255)
OpSet(parent, last, op) ==
    IF op.value.t = "missing" THEN [err |-> "validation", parent |-> parent]
    ELSE set_current(parent, last, op.value)

\* kind == "inc" (lines 257-267)
OpInc(parent, last, op) ==
    LET by == IF op.by.t = "missing" THEN Num(1) ELSE op.by
        got == get_current(parent, last)
        curr == IF got.val.t = "null" THEN Num(0) ELSE got.val
    IN IF ~IsNumber(by) THEN [err |-> "validation", parent |-> parent]
       ELSE IF got.err # "ok" THEN [err |-> got.err, parent |-> parent]
       ELSE IF ~IsNumber(curr) THEN [err |-> "validation", parent |-> parent]
       ELSE set_current(parent, last, Num(NumVal(curr) + NumVal(by)))

\* kind == "delete" (lines 269-276)
OpDelete(parent, last, op) ==
    IF parent.t = "obj"
    THEN [err |-> "ok", parent |-> Obj(DelKey(parent.f, LastKey(last)))]
    ELSE IF parent.t = "arr"
    THEN IF ~is_int_like(last) THEN [err |-> "error", parent |-> parent]
         ELSE IF ToInt(last) < Len(parent.e)
              THEN [err |-> "ok", parent |-> Arr(RemoveAt(parent.e, ToInt(last)))]
              ELSE [err |-> "ok", parent |-> parent]
    ELSE [err |-> "ok", parent |-> parent]

\* kind == "merge" (lines 278-286)
OpMerge(parent, last, op) ==
    LET got == get_current(parent, last)
        curr == IF got.val.t = "obj" THEN got.val ELSE EmptyObj
    IN IF op.value.t # "obj" THEN [err |-> "validation", parent |-> parent]
       ELSE IF got.err # "ok" THEN [err |-> got.err, parent |-> parent]
       ELSE set_current(parent, last, deep_merge(curr, op.value))

\* kind == "append" (lines 288-297)
OpAppend(parent, last, op) ==
    LET value == IF op.value.t = "missing" THEN Null ELSE op.value
        got == get_current(parent, last)
        curr == IF got.val.t = "null" THEN << >>
                ELSE IF got.val.t = "arr" THEN got.val.e
                ELSE <<got.val>>
    IN IF got.err # "ok" THEN [err |-> got.err, parent |-> parent]
       ELSE set_current(parent, last, Arr(Append(curr, value)))

\* An op as received: isDict is FALSE for an op that is not a JSON object;
\* value and by are Missing when the key is not in the op.
OpRec(kind, path, value, by) ==
    [isDict |-> TRUE, op |-> kind, path |-> path, value |-> value, by |-> by]
NotAnObjectOp == [isDict |-> FALSE, op |-> "", path |-> NoPath, value |-> Missing, by |-> Missing]

\* the part of _apply_op after the parent is resolved (lines 230-297)
OnParent(parent, last, op) ==
    CASE op.op = "set" -> OpSet(parent, last, op)
      [] op.op = "inc" -> OpInc(parent, last, op)
      [] op.op = "delete" -> OpDelete(parent, last, op)
      [] op.op = "merge" -> OpMerge(parent, last, op)
      [] op.op = "append" -> OpAppend(parent, last, op)

\* the validations of `kind` and `path` before the path is split
\* (lines 216-225): TRUE when a ValidationError is raised
PathCheckFails(op) == op.op # "append" /\ PathBlank(op.path)

\* _apply_op(doc, op): the document after the call, and how the call ended:
\* "ok", "validation" (ValidationError) or "error" (any other exception)
apply_op(doc, op) ==
    IF ~op.isDict THEN [doc |-> doc, err |-> "validation"]
    ELSE IF op.op \notin Kinds THEN [doc |-> doc, err |-> "validation"]
    ELSE IF PathCheckFails(op) THEN [doc |-> doc, err |-> "validation"]
    ELSE LET sp == split_path(op.path)
             pk == get_parent_and_key(doc, sp.segments)
             parent == GetAt(pk.w.root, pk.w.loc)
             res == OnParent(parent, pk.last, op)
         IN IF sp.err # "ok" THEN [doc |-> doc, err |-> "error"]
            ELSE IF pk.err # "ok" THEN [doc |-> doc, err |-> "error"]
            ELSE [doc |-> DocOf([pk.w EXCEPT !.root = PutAt(pk.w.root, pk.w.loc, res.parent)]),
                  err |-> res.err]

\* ------------------------------------------------------------------------
\* JSON text
\* ------------------------------------------------------------------------
\* json.loads(json.dumps(v)): what a document is once written as JSON text
\* (the stored blob, the response body).  An int key is written as its
\* decimal string; when a dict holds both the int key and the string key the
\* text holds the key twice and the parser keeps the later one, which is the
\* int key here (string index keys come only from a loaded blob, and the
\* payload values of this model hold no such key).
RECURSIVE json_roundtrip(_)
json_roundtrip(v) ==
    IF v.t = "obj"
    THEN Obj([s \in {DumpKey(k) : k \in DOMAIN v.f} |->
               LET ints == {k \in DOMAIN v.f : k # s /\ DumpKey(k) = s}
               IN IF ints # {} THEN json_roundtrip(v.f[CHOOSE k \in ints : TRUE])
                  ELSE json_roundtrip(v.f[s])])
    ELSE IF v.t = "arr"
    THEN Arr([j \in 1..Len(v.e) |-> json_roundtrip(v.e[j])])
    ELSE v

\* bool(v) of a JSON value: None, False, 0, "", [] and {} are falsy
Truthy(v) ==
    CASE v.t = "null" -> FALSE
      [] v.t = "bool" -> v.b
      [] v.t = "num" -> v.n # 0
      [] v.t = "str" -> v.s # ""
      [] v.t = "arr" -> v.e # << >>
      [] v.t = "obj" -> DOMAIN v.f # {}

\* ------------------------------------------------------------------------
\* lambda_handler: state
\* ------------------------------------------------------------------------
\* the invocations; each has its own `stats` document
Reqs == {"r1", "r2"}

\* A version tag is a positive number, a new one for every write; NoEtag is
\* the None the helpers return when there is no tag (it is falsy).
NoEtag == 0
\* the tags a caller may send as ifMatchEtag
IfMatchTags == {1, 2}

VARIABLES
    \* the process-wide DRY_RUN override (line 19)
    DRY_RUN,
    \* the blob under "<app>/stats.json": [exists, doc, etag]
    store,
    \* where each invocation is: "idle", "head", "get", "check", "mutate",
    \* "persist", "done"
    pc,
    \* the parsed payload of each invocation:
    \* [createIfMissing, dryRun, hasIfMatch, ifMatchEtag, ops, nOps],
    \* nOps being len(ops)
    req,
    \* the locals of the handler: [current_etag, stats, etag]
    loc,
    \* the response returned: [status, error, stats, etag, dryRun]
    resp,
    \* what each invocation has done so far (history, not read by the code):
    \* [applied, failedAt, puts, loadFailed, store0, lastErr, loaded,
    \* bodyTag, putFault, tagAtPut]: store0 the store as it was when the
    \* request arrived, loaded the document the load left in `stats`,
    \* bodyTag the tag of the revision the body read returned, putFault
    \* whether the store failed the write, tagAtPut the store's tag when
    \* the write was called
    hist,
    \* invocations started so far
    started,
    \* the document engine on its own (OpSpec):
    \* [pre, op, doc, err, steps, probed]
    eng

vars == <<DRY_RUN, store, pc, req, loc, resp, hist, started, eng>>

\* most invocations one container serves (Spec)
MaxReqs == 2

NoStore == [exists |-> FALSE, doc |-> EmptyObj, etag |-> NoEtag]
NoReq == [createIfMissing |-> TRUE, dryRun |-> FALSE, hasIfMatch |-> FALSE,
          ifMatchEtag |-> NoEtag, ops |-> << >>, nOps |-> 0]
NoLoc == [current_etag |-> NoEtag, stats |-> EmptyObj, etag |-> NoEtag]
NoResp == [status |-> 0, error |-> "", stats |-> Null, etag |-> NoEtag, dryRun |-> FALSE]
NoHist == [applied |-> 0, failedAt |-> 0, puts |-> 0, loadFailed |-> FALSE,
           store0 |-> NoStore, lastErr |-> "ok", loaded |-> EmptyObj, bodyTag |-> NoEtag,
           putFault |-> FALSE, tagAtPut |-> NoEtag]
NoEng == [pre |-> EmptyObj, op |-> NotAnObjectOp, doc |-> EmptyObj, err |-> "ok", steps |-> 0,
          probed |-> FALSE]

\* _bad_request(msg): 400, {ok: false, error: msg}; the message is kept as
\* the kind of rejection
bad_request(kind) == [status |-> 400, error |-> kind, stats |-> Null, etag |-> NoEtag,
                      dryRun |-> FALSE]
\* _server_error(): 500, {ok: false, error: "Internal error"}
server_error == [status |-> 500, error |-> "internal", stats |-> Null, etag |-> NoEtag,
                 dryRun |-> FALSE]
\* the 200 response (lines 360-367 and 376-384)
ok_response(stats, etag, dryRun) ==
    [status |-> 200, error |-> "", stats |-> json_roundtrip(stats), etag |-> etag,
     dryRun |-> dryRun]

\* all sequences over S of length 0..n
RECURSIVE SeqsUpTo(_, _)
SeqsUpTo(S, n) ==
    IF n = 0 THEN {<< >>}
    ELSE LET shorter == SeqsUpTo(S, n - 1)
         IN shorter \cup {Append(q, x) : q \in shorter, x \in S}

\* the operations the requests of Spec carry
HandlerOps ==
    { OpRec("inc", PathOf(<<"a">>), Missing, Missing),
      OpRec("set", PathOf(<<"a">>), Num(5), Missing),
      OpRec("delete", PathOf(<<"a">>), Missing, Missing),
      OpRec("inc", PathOf(<<"b", "a">>), Missing, Str("q")),
      OpRec("set", PathOf(<<"", "">>), Num(1), Missing),
      OpRec("set", PathOf(<<"0", "a">>), Num(1), Missing) }

\* the payloads whose `ops` are the lists in opLists
PayloadsOver(opLists) ==
    { [createIfMissing |-> c, dryRun |-> d, hasIfMatch |-> m[1], ifMatchEtag |-> m[2],
       ops |-> o, nOps |-> Len(o)] :
        c \in BOOLEAN, d \in BOOLEAN,
        m \in {<<FALSE, NoEtag>>} \cup {<<TRUE, t>> : t \in IfMatchTags},
        o \in opLists }

\* the payloads of the well-formed requests of Spec
Payloads == PayloadsOver(SeqsUpTo(HandlerOps, MaxOps))

Init ==
    /\ DRY_RUN \in BOOLEAN
    /\ store = NoStore
    /\ pc = [r \in Reqs |-> "idle"]
    /\ req = [r \in Reqs |-> NoReq]
    /\ loc = [r \in Reqs |-> NoLoc]
    /\ resp = [r \in Reqs |-> NoResp]
    /\ hist = [r \in Reqs |-> NoHist]
    /\ started = 0
    /\ eng = NoEng

\* ------------------------------------------------------------------------
\* lambda_handler: steps
\* ------------------------------------------------------------------------
\* return <response>
Return(r, response) ==
    /\ pc' = [pc EXCEPT ![r] = "done"]
    /\ resp' = [resp EXCEPT ![r] = response]

\* A request arrives that is rejected before anything is read: missing
\* body, invalid JSON, missing appName, ops not a list (lines 302-323).
Malformed(r) ==
    /\ pc[r] = "idle"
    /\ \A q \in Reqs : pc[q] = "idle"
    /\ started < MaxReqs
    /\ started' = started + 1
    /\ Return(r, bad_request("malformed"))
    /\ hist' = [hist EXCEPT ![r] = [NoHist EXCEPT !.store0 = store]]
    /\ req' = [req EXCEPT ![r] = NoReq]
    /\ loc' = [loc EXCEPT ![r] = NoLoc]
    /\ UNCHANGED <<DRY_RUN, store, eng>>

\* the handler is entered with the well-formed payload p (lines 316-325)
Begin(r, p) ==
    /\ pc[r] = "idle"
    /\ started' = started + 1
    /\ req' = [req EXCEPT ![r] = p]
    /\ pc' = [pc EXCEPT ![r] = "head"]
    /\ loc' = [loc EXCEPT ![r] = NoLoc]
    /\ resp' = [resp EXCEPT ![r] = NoResp]
    /\ hist' = [hist EXCEPT ![r] = [NoHist EXCEPT !.store0 = store]]
    /\ UNCHANGED <<DRY_RUN, store, eng>>

\* A well-formed request arrives at an idle container.
Start(r) ==
    /\ \A q \in Reqs : pc[q] = "idle"
    /\ started < MaxReqs
    /\ \E p \in Payloads : Begin(r, p)

\* the `except Exception` of the read block (lines 333-336)
LoadFailed(r) ==
    /\ loc' = [loc EXCEPT ![r] = [@ EXCEPT !.stats = EmptyObj, !.etag = NoEtag]]
    /\ hist' = [hist EXCEPT ![r].loadFailed = TRUE, ![r].loaded = EmptyObj]
    /\ pc' = [pc EXCEPT ![r] = "check"]

\* _s3_head (line 329): the tag of the blob, None under DRY_RUN or when the
\* blob is absent; or the call raises
s3_head(r) ==
    /\ pc[r] = "head"
    /\ \/ /\ loc' = [loc EXCEPT ![r].current_etag =
                        IF DRY_RUN \/ ~store.exists THEN NoEtag ELSE store.etag]
          /\ pc' = [pc EXCEPT ![r] = "get"]
          /\ UNCHANGED hist
       \/ /\ ~DRY_RUN
          /\ LoadFailed(r)
    /\ UNCHANGED <<DRY_RUN, store, req, resp, started, eng>>

\* _s3_get_json (lines 330-332): the document and its tag, ({}, None) under
\* DRY_RUN or when the blob is absent; or the call raises
s3_get_json(r) ==
    /\ pc[r] = "get"
    /\ \/ LET found == ~DRY_RUN /\ store.exists
              etag_from_get == IF found THEN store.etag ELSE NoEtag
          IN /\ loc' = [loc EXCEPT ![r] =
                          [@ EXCEPT !.stats = IF found THEN store.doc ELSE EmptyObj,
                                    !.etag = IF loc[r].current_etag # NoEtag
                                             THEN loc[r].current_etag
                                             ELSE etag_from_get]]
             /\ pc' = [pc EXCEPT ![r] = "check"]
             /\ hist' = [hist EXCEPT ![r].loaded = IF found THEN store.doc ELSE EmptyObj,
                                     ![r].bodyTag = etag_from_get]
       \/ /\ ~DRY_RUN
          /\ LoadFailed(r)
    /\ UNCHANGED <<DRY_RUN, store, req, resp, started, eng>>

\* lines 338-339
NotFound(r) == ~Truthy(loc[r].stats) /\ ~req[r].createIfMissing
\* the version check left out
ConflictNever(r) == FALSE

\* lines 342-345
Conflict(r) ==
    /\ req[r].hasIfMatch
    /\ loc[r].etag # NoEtag
    /\ req[r].ifMatchEtag # loc[r].etag

\* the two checks before the operations are applied (lines 338-345)
Check(r) ==
    /\ pc[r] = "check"
    /\ IF NotFound(r) THEN Return(r, bad_request("notfound"))
       ELSE IF Conflict(r) THEN Return(r, bad_request("conflict"))
       ELSE /\ pc' = [pc EXCEPT ![r] = IF req[r].nOps = 0 THEN "persist" ELSE "mutate"]
            /\ UNCHANGED resp
    /\ UNCHANGED <<DRY_RUN, store, req, loc, hist, started, eng>>

\* the response of the two except clauses around the loop (lines 351-355)
ApplyFailureResponse(err) ==
    IF err = "validation" THEN bad_request("validation") ELSE server_error

\* OpFailed with the exception swallowed: the handler goes on to the write
OpFailedGoesOn(r, n, err) ==
    /\ hist' = [hist EXCEPT ![r].failedAt = n, ![r].lastErr = err]
    /\ pc' = [pc EXCEPT ![r] = "persist"]
    /\ UNCHANGED resp

\* an operation raised: the loop is left and the response returned; n is
\* the position of the operation in ops
OpFailed(r, n, err) ==
    /\ hist' = [hist EXCEPT ![r].failedAt = n, ![r].lastErr = err]
    /\ Return(r, ApplyFailureResponse(err))

\* the loop taking the operations from the end of the list
NextOpFromEnd(r) == req[r].ops[req[r].nOps - hist[r].applied]

\* `for op in ops`: the operation of the next turn of the loop
NextOp(r) == req[r].ops[hist[r].applied + 1]

\* one turn of `for op in ops: _apply_op(stats, op)` with its two except
\* clauses (lines 348-355)
Mutate(r) ==
    /\ pc[r] = "mutate"
    /\ LET res == apply_op(loc[r].stats, NextOp(r))
           n == hist[r].applied + 1
       IN /\ loc' = [loc EXCEPT ![r].stats = res.doc]
          /\ IF res.err = "ok"
             THEN /\ hist' = [hist EXCEPT ![r].applied = n]
                  /\ pc' = [pc EXCEPT ![r] = IF n = req[r].nOps THEN "persist" ELSE "mutate"]
                  /\ UNCHANGED resp
             ELSE OpFailed(r, n, res.err)
    /\ UNCHANGED <<DRY_RUN, store, req, started, eng>>

\* DryRunInForce reading the process-wide override only
DryRunEnvOnly(r) == DRY_RUN

\* `if dry_run or DRY_RUN` (line 358)
DryRunInForce(r) == req[r].dryRun \/ DRY_RUN

\* a write that is refused when the blob is no longer the revision read
put_raises_if_stale(r, fault) == fault \/ store.etag # loc[r].etag

\* _s3_put_json (lines 128-141): put_object is called with the bucket, the
\* key and the body only, and raises when the store fails (fault)
put_raises(r, fault) == fault

\* lines 357-384: the dry-run return, or _s3_put_json and the 200 response,
\* or the 500 response when the write raises
Persist(r) ==
    /\ pc[r] = "persist"
    /\ IF DryRunInForce(r)
       THEN /\ Return(r, ok_response(loc[r].stats, loc[r].etag, TRUE))
            /\ UNCHANGED <<store, hist>>
       ELSE \E fault \in BOOLEAN :
              /\ hist' = [hist EXCEPT ![r].puts = @ + 1, ![r].putFault = fault,
                                      ![r].tagAtPut = store.etag]
              /\ IF put_raises(r, fault)
                 THEN /\ Return(r, server_error)
                      /\ UNCHANGED store
                 ELSE LET new_etag == store.etag + 1
                      IN /\ store' = [exists |-> TRUE, doc |-> json_roundtrip(loc[r].stats),
                                      etag |-> new_etag]
                         /\ Return(r, ok_response(loc[r].stats, new_etag, FALSE))
    /\ UNCHANGED <<DRY_RUN, req, loc, started, eng>>

\* the invocation is over: its locals are gone and the container is idle
Retire(r) ==
    /\ pc[r] = "done"
    /\ pc' = [pc EXCEPT ![r] = "idle"]
    /\ req' = [req EXCEPT ![r] = NoReq]
    /\ loc' = [loc EXCEPT ![r] = NoLoc]
    /\ resp' = [resp EXCEPT ![r] = NoResp]
    /\ hist' = [hist EXCEPT ![r] = NoHist]
    /\ UNCHANGED <<DRY_RUN, store, started, eng>>

Next ==
    \E r \in Reqs :
        \/ Malformed(r)
        \/ Start(r)
        \/ s3_head(r)
        \/ s3_get_json(r)
        \/ Check(r)
        \/ Mutate(r)
        \/ Persist(r)
        \/ Retire(r)

Spec == Init /\ [][Next]_vars

\* One step of the handler of invocation r.  The handler is straight-line
\* code around one loop over a finite list, and each storage call returns
\* or raises: an invocation that has a step to take takes it.
Step(r) == s3_head(r) \/ s3_get_json(r) \/ Check(r) \/ Mutate(r) \/ Persist(r)

\* the `ops` of the requests of LiveSpec: none; one operation; two that
\* succeed; a second that raises ValidationError; one that raises ValueError
LiveOpLists ==
    { << >>,
      <<OpRec("inc", PathOf(<<"a">>), Missing, Missing)>>,
      <<OpRec("set", PathOf(<<"a">>), Num(5), Missing),
        OpRec("inc", PathOf(<<"a">>), Missing, Missing)>>,
      <<OpRec("inc", PathOf(<<"a">>), Missing, Missing),
        OpRec("inc", PathOf(<<"b", "a">>), Missing, Str("q"))>>,
      <<OpRec("set", PathOf(<<"", "">>), Num(1), Missing)>> }

LivePayloads == PayloadsOver(LiveOpLists)

\* A well-formed request arrives at an idle container.
LiveStart(r) ==
    /\ \A q \in Reqs : pc[q] = "idle"
    /\ started < MaxReqs
    /\ \E p \in LivePayloads : Begin(r, p)

LiveNext ==
    \E r \in Reqs :
        \/ Malformed(r)
        \/ LiveStart(r)
        \/ s3_head(r)
        \/ s3_get_json(r)
        \/ Check(r)
        \/ Mutate(r)
        \/ Persist(r)
        \/ Retire(r)

LiveSpec == Init /\ [][LiveNext]_vars /\ \A r \in Reqs : WF_vars(Step(r))

\* ------------------------------------------------------------------------
\* Invocations running at the same time
\* ------------------------------------------------------------------------
\* Each invocation runs in a container of its own, with its own `stats`;
\* the three storage calls are the points where the invocations interleave,
\* and the blob is all they share.

\* the `ops` of these requests: none, or one update, of one of two fields
ConcOpLists ==
    { << >>,
      <<OpRec("inc", PathOf(<<"a">>), Missing, Missing)>>,
      <<OpRec("inc", PathOf(<<"b">>), Missing, Missing)>> }

\* the payloads of these requests (createIfMissing left at its default)
ConcPayloads == {p \in PayloadsOver(ConcOpLists) : p.createIfMissing}

\* the store as an earlier request without operations left it
EmptyBlob == [exists |-> TRUE, doc |-> EmptyObj, etag |-> 1]

ConcInit ==
    /\ DRY_RUN \in BOOLEAN
    /\ store \in {NoStore, EmptyBlob}
    /\ pc = [r \in Reqs |-> "idle"]
    /\ req = [r \in Reqs |-> NoReq]
    /\ loc = [r \in Reqs |-> NoLoc]
    /\ resp = [r \in Reqs |-> NoResp]
    /\ hist = [r \in Reqs |-> NoHist]
    /\ started = 0
    /\ eng = NoEng

\* A well-formed request arrives, whatever the other invocations are doing.
ConcStart(r) ==
    /\ started < MaxReqs
    /\ \E p \in ConcPayloads : Begin(r, p)

ConcNext ==
    \E r \in Reqs :
        \/ ConcStart(r)
        \/ s3_head(r)
        \/ s3_get_json(r)
        \/ Check(r)
        \/ Mutate(r)
        \/ Persist(r)
        \/ Retire(r)

ConcSpec == ConcInit /\ [][ConcNext]_vars

\* ------------------------------------------------------------------------
\* The document engine on its own (as tests/test_apply_op.py drives it)
\* ------------------------------------------------------------------------
\* the paths of the operations: every dotted path of up to MaxPathLen
\* segments; no path; the blank path ""; the path "." of dots only
GoodPaths == {PathOf(q) : q \in SeqsUpTo(Segs, MaxPathLen) \ {<< >>}}
BadPaths == {NoPath, PathOf(<<"">>), PathOf(<<"", "">>)}

SetValues == {Num(5), Obj1("a", Obj1("x", Num(1)))}
IncAmounts == {Missing, Num(3), Str("q")}
MergeValues == {Obj2("a", Obj1("y", Num(2)), "b", Num(3)), Num(5)}
AppendValues == {Num(7)}

\* every operation of the model
EngineOps ==
    {OpRec("set", p, v, Missing) : p \in GoodPaths, v \in SetValues}
    \cup {OpRec("inc", p, Missing, by) : p \in GoodPaths, by \in IncAmounts}
    \cup {OpRec("delete", p, Missing, Missing) : p \in GoodPaths}
    \cup {OpRec("merge", p, v, Missing) : p \in GoodPaths, v \in MergeValues}
    \cup {OpRec("append", p, v, Missing) : p \in GoodPaths, v \in AppendValues}
    \cup {OpRec(k, p, Num(5), Missing) : k \in Kinds, p \in BadPaths}
    \cup {OpRec("set", PathOf(<<"a">>), Missing, Missing),
          OpRec("bogus", PathOf(<<"a">>), Num(5), Missing),
          NotAnObjectOp}

\* the operations that build the document up before any operation of
\* EngineOps is applied to it
BuildOps ==
    { OpRec("set", PathOf(<<"a">>), Num(5), Missing),
      OpRec("set", PathOf(<<"a">>), Str("s"), Missing),
      OpRec("set", PathOf(<<"a">>), Bool(TRUE), Missing),
      OpRec("set", PathOf(<<"a">>), Obj1("a", Obj1("x", Num(1))), Missing),
      OpRec("set", PathOf(<<"a", "1">>), Num(5), Missing),
      OpRec("set", PathOf(<<"a", "0", "0">>), Num(5), Missing),
      OpRec("inc", PathOf(<<"a">>), Missing, Missing),
      OpRec("inc", PathOf(<<"a">>), Missing, Num(3)),
      OpRec("append", PathOf(<<"a">>), Num(7), Missing),
      OpRec("append", PathOf(<<"a">>), Str("s"), Missing),
      OpRec("delete", PathOf(<<"a", "0">>), Missing, Missing) }

\* the mark left in eng.op by Reload
ReloadMark == OpRec("reload", NoPath, Missing, Missing)

OpInit ==
    /\ DRY_RUN = TRUE
    /\ store = NoStore
    /\ pc = [r \in Reqs |-> "idle"]
    /\ req = [r \in Reqs |-> NoReq]
    /\ loc = [r \in Reqs |-> NoLoc]
    /\ resp = [r \in Reqs |-> NoResp]
    /\ hist = [r \in Reqs |-> NoHist]
    /\ started = 0
    /\ eng = NoEng

\* _apply_op(eng.doc, op); a document on which an operation failed is not
\* used again
Applied(op, isProbe) ==
    LET res == apply_op(eng.doc, op)
    IN eng' = [pre |-> eng.doc, op |-> op, doc |-> res.doc, err |-> res.err,
               steps |-> eng.steps + 1, probed |-> isProbe]

\* one of the operations that build the document up
BuildStep ==
    /\ ~eng.probed
    /\ eng.err = "ok"
    /\ eng.steps < MaxSteps
    /\ \E op \in BuildOps : Applied(op, FALSE)
    /\ UNCHANGED <<DRY_RUN, store, pc, req, loc, resp, hist, started>>

\* any operation, on the document built so far
ProbeStep ==
    /\ ~eng.probed
    /\ eng.err = "ok"
    /\ \E op \in EngineOps : Applied(op, TRUE)
    /\ UNCHANGED <<DRY_RUN, store, pc, req, loc, resp, hist, started>>

\* the document is written as JSON text and read back (the write of one
\* request and the read of the next)
Reload ==
    /\ ~eng.probed
    /\ eng.err = "ok"
    /\ eng' = [eng EXCEPT !.pre = eng.doc, !.op = ReloadMark,
                          !.doc = json_roundtrip(eng.doc)]
    /\ UNCHANGED <<DRY_RUN, store, pc, req, loc, resp, hist, started>>

OpNext == BuildStep \/ ProbeStep \/ Reload

OpSpec == OpInit /\ [][OpNext]_vars

\* ------------------------------------------------------------------------
\* Properties of the handler (checked under Spec)
\* ------------------------------------------------------------------------
\* C1: a request that carries ifMatchEtag while the store holds a current
\* tag different from it ends with the Conflict rejection, applies none of
\* its operations and never calls the store's write.  (A request already
\* rejected as Not-Found, the check that comes first, is left aside.)
ConflictRejection ==
    \A r \in Reqs :
        ( /\ pc[r] = "done"
          /\ req[r].hasIfMatch
          /\ hist[r].store0.exists
          /\ hist[r].store0.etag # req[r].ifMatchEtag
          /\ resp[r].error # "notfound" )
        => /\ resp[r] = bad_request("conflict")
           /\ hist[r].applied = 0
           /\ hist[r].failedAt = 0
           /\ hist[r].puts = 0

\* C2: a request for which dry-run is in force (dryRun in the payload, or
\* the process-wide DRY_RUN) never calls the store's write and leaves the
\* stored blob as it found it, whatever its operations; when it is not
\* rejected, its response carries the document computed from all its
\* operations, and dryRun = true.
DryRunPurity ==
    \A r \in Reqs :
        (pc[r] # "idle" /\ (req[r].dryRun \/ DRY_RUN))
        => /\ hist[r].puts = 0
           /\ store = hist[r].store0
           /\ (pc[r] = "done" /\ resp[r].status = 200)
              => /\ resp[r].dryRun
                 /\ hist[r].applied = req[r].nOps
                 /\ resp[r].stats = json_roundtrip(loc[r].stats)

\* C2 witness: a dry-run request has applied operations and answered 200
\* with a document that is not the (existing) stored one
DryRunPurityWitness ==
    \E r \in Reqs :
        /\ pc[r] = "done"
        /\ req[r].dryRun
        /\ ~DRY_RUN
        /\ resp[r].status = 200
        /\ hist[r].applied = 2
        /\ store.exists
        /\ resp[r].stats # store.doc

\* C3: when an operation of a request fails, the operations after it are
\* not applied, the store's write is not called and the stored blob is what
\* it was when the request arrived; a blob written by a request is the
\* document after all of the request's operations.
BatchAtomicity ==
    \A r \in Reqs :
        /\ hist[r].failedAt # 0
           => /\ pc[r] = "done"
              /\ resp[r].status \in {400, 500}
              /\ hist[r].applied = hist[r].failedAt - 1
              /\ hist[r].puts = 0
              /\ store = hist[r].store0
        /\ hist[r].puts # 0
           => /\ hist[r].failedAt = 0
              /\ hist[r].applied = req[r].nOps
              /\ hist[r].puts = 1
              /\ store # hist[r].store0 => store.doc = json_roundtrip(loc[r].stats)

\* C3 witness: the second operation of a request failed after the first had
\* changed the in-memory document, on a blob that exists
BatchAtomicityWitness ==
    \E r \in Reqs :
        /\ pc[r] = "done"
        /\ hist[r].failedAt = 2
        /\ hist[r].applied = 1
        /\ ~req[r].dryRun
        /\ ~DRY_RUN
        /\ store.exists
        /\ json_roundtrip(loc[r].stats) # store.doc

\* C5: a storage failure during the load (the probe or the body read
\* raises) ends the request with the 500 "Internal error" response, without
\* a call of the store's write, the blob unchanged.
LoadFailureIsServerError ==
    \A r \in Reqs :
        (pc[r] = "done" /\ hist[r].loadFailed)
        => /\ resp[r] = server_error
           /\ hist[r].puts = 0
           /\ store = hist[r].store0

\* C6: Not-Found is answered only when createIfMissing is false and the
\* blob is absent from the store, never for a key whose blob exists; nothing
\* is applied or written then.  (Requests whose load raised are left aside.)
NotFoundOnlyWhenAbsent ==
    \A r \in Reqs :
        (pc[r] = "done" /\ resp[r].error = "notfound" /\ ~hist[r].loadFailed)
        => /\ ~req[r].createIfMissing
           /\ ~hist[r].store0.exists
           /\ hist[r].applied = 0
           /\ hist[r].puts = 0

\* ------------------------------------------------------------------------
\* Properties of the document engine (checked under OpSpec)
\* ------------------------------------------------------------------------
\* what a position holds when the path does not lead anywhere
Absent == [t |-> "absent"]

\* the document as its JSON text shows it
Seen(doc) == json_roundtrip(doc)

\* following a path from v: a field or index segment names a key of an
\* Object, an index segment an element of an Array
RECURSIVE ValueAt(_, _)
ValueAt(v, segs) ==
    IF segs = << >> THEN v
    ELSE IF v.t = "obj" /\ Head(segs) \in DOMAIN v.f
    THEN ValueAt(v.f[Head(segs)], Tail(segs))
    ELSE IF v.t = "arr" /\ Head(segs) \in IndexSegs /\ ToInt(Head(segs)) < Len(v.e)
    THEN ValueAt(v.e[ToInt(Head(segs)) + 1], Tail(segs))
    ELSE Absent

\* a path string with at least one segment and no empty fragment
GoodPath(path) ==
    /\ path.isStr
    /\ path.frags # << >>
    /\ \A i \in 1..Len(path.frags) : path.frags[i] \in Segs

\* the last step of the engine applied an operation of this kind
LastOpIs(kind) == eng.steps > 0 /\ eng.op.isDict /\ eng.op.op = kind

\* the value the path of the last operation led to before it
TargetBefore == ValueAt(Seen(eng.pre), eng.op.path.frags)
\* the value the path of the last operation leads to after it
TargetAfter == ValueAt(Seen(eng.doc), eng.op.path.frags)

\* the operation errors the claim lists
ListedOpError ==
    \/ ~eng.op.isDict
    \/ eng.op.op \notin Kinds
    \/ ~eng.op.path.isStr
    \/ NonEmptyFrags(eng.op.path.frags) = << >>
    \/ eng.op.op = "set" /\ eng.op.value.t = "missing"
    \/ eng.op.op = "inc" /\ eng.op.by.t \notin {"missing", "num", "bool"}
    \/ eng.op.op = "inc" /\ GoodPath(eng.op.path) /\ TargetBefore.t \in {"str", "obj", "arr"}
    \/ eng.op.op = "merge" /\ eng.op.value.t # "obj"

\* C4: every operation error (unknown kind, op that is not an object,
\* missing or non-string path, path without segments, set without value,
\* non-numeric Inc target or amount, non-Object Merge payload) is a
\* Validation error and reaches the caller as a 400 response, for all five
\* kinds of operation.
OpErrorsAreValidation ==
    (eng.steps > 0 /\ eng.op # ReloadMark /\ ListedOpError)
    => /\ eng.err = "validation"
       /\ ApplyFailureResponse(eng.err).status = 400

\* C7: Set(path, v) on the empty Object, the first segment of path a field:
\* following the path from the root reaches v, and every position before the
\* last holds an Array when the next segment is an index and an Object when
\* it is a field.
SetCreatesParents ==
    LET segs == eng.op.path.frags
    IN ( /\ LastOpIs("set")
         /\ eng.pre = EmptyObj
         /\ GoodPath(eng.op.path)
         /\ Head(segs) \in FieldSegs
         /\ eng.op.value.t # "missing" )
       => /\ eng.err = "ok"
          /\ TargetAfter = eng.op.value
          /\ \A i \in 1..(Len(segs) - 1) :
                ValueAt(Seen(eng.doc), SubSeq(segs, 1, i)).t =
                    IF segs[i + 1] \in IndexSegs THEN "arr" ELSE "obj"

\* C8: Inc(path, by) with a numeric amount (1 when not given) on a target
\* that is absent or a number succeeds and leaves at path the previous value
\* (0 when absent) plus the amount.
IncAddsAmount ==
    LET by == IF eng.op.by.t = "missing" THEN 1 ELSE eng.op.by.n
        before == IF TargetBefore.t = "num" THEN TargetBefore.n ELSE 0
    IN ( /\ LastOpIs("inc")
         /\ GoodPath(eng.op.path)
         /\ eng.op.by.t \in {"missing", "num"}
         /\ TargetBefore.t \in {"absent", "num"} )
       => /\ eng.err = "ok"
          /\ TargetAfter = Num(before + by)

\* C9: an Inc whose target holds a value that is not a number fails with a
\* Validation error, and an Inc that fails with a Validation error leaves
\* the in-memory document exactly as it was, with no new container.
IncTypeGuard ==
    /\ (LastOpIs("inc") /\ GoodPath(eng.op.path) /\ TargetBefore.t \in {"str", "obj", "arr"})
       => eng.err = "validation"
    /\ (LastOpIs("inc") /\ eng.err = "validation")
       => eng.doc = eng.pre

\* the recursive merge the claim refers to: for each key of src, recurse
\* when both sides hold Objects, else src overwrites; other keys are kept
RECURSIVE RefMerge(_, _)
RefMerge(dst, src) ==
    Obj([k \in (DOMAIN dst.f) \cup (DOMAIN src.f) |->
          IF k \notin DOMAIN src.f THEN dst.f[k]
          ELSE IF k \in DOMAIN dst.f /\ dst.f[k].t = "obj" /\ src.f[k].t = "obj"
          THEN RefMerge(dst.f[k], src.f[k])
          ELSE src.f[k]])

\* C10: Merge(path, payload) with an Object payload leaves at path the
\* recursive merge of payload into the value that was there, taken as the
\* empty Object when that value was absent or not an Object.
MergeIsDeepMerge ==
    ( /\ LastOpIs("merge")
      /\ GoodPath(eng.op.path)
      /\ eng.op.value.t = "obj" )
    => /\ eng.err = "ok"
       /\ TargetAfter = RefMerge(IF TargetBefore.t = "obj" THEN TargetBefore ELSE EmptyObj,
                                 eng.op.value)

\* C11: after Append(path, v) the value at path is an Array whose last
\* element is v and whose other elements are those of the previous Array,
\* nothing when the target was absent, and the single previous value when
\* the target held something that is not an Array.  (A target holding null
\* is left aside.)
AppendSemantics ==
    LET prev == IF TargetBefore.t = "arr" THEN TargetBefore.e
                ELSE IF TargetBefore.t = "absent" THEN << >>
                ELSE <<TargetBefore>>
        v == IF eng.op.value.t = "missing" THEN Null ELSE eng.op.value
    IN ( /\ LastOpIs("append")
         /\ GoodPath(eng.op.path)
         /\ TargetBefore.t # "null" )
       => /\ eng.err = "ok"
          /\ TargetAfter = Arr(Append(prev, v))

\* the document v without the position segs leads to (which exists): the
\* key taken out of its Object, or the element out of its Array with the
\* later elements moved left by one
RECURSIVE RefRemove(_, _)
RefRemove(v, segs) ==
    IF v.t = "obj"
    THEN IF Len(segs) = 1 THEN Obj(DelKey(v.f, Head(segs)))
         ELSE Obj([v.f EXCEPT ![Head(segs)] = RefRemove(@, Tail(segs))])
    ELSE LET i == ToInt(Head(segs))
         IN IF Len(segs) = 1 THEN Arr(RemoveAt(v.e, i))
            ELSE Arr([v.e EXCEPT ![i + 1] = RefRemove(@, Tail(segs))])

\* C12: Delete(path) takes the addressed key out of its parent Object, or
\* the addressed element out of its parent Array with the later elements
\* moved left by one; when the path addresses nothing, the whole document
\* is left unchanged.
DeleteEffect ==
    ( /\ LastOpIs("delete")
      /\ GoodPath(eng.op.path) )
    => Seen(eng.doc) = IF TargetBefore = Absent
                       THEN Seen(eng.pre)
                       ELSE RefRemove(Seen(eng.pre), eng.op.path.frags)

\* C13: on a document whose root is an Object, Delete(path) and
\* Append(path, v) with a path of at least one segment complete without
\* raising any error, whatever the values along the path are.
DeleteAppendNeverFail ==
    ( /\ LastOpIs("delete") \/ LastOpIs("append")
      /\ GoodPath(eng.op.path)
      /\ eng.pre.t = "obj" )
    => eng.err = "ok"

\* ------------------------------------------------------------------------
\* Further properties of the handler (checked under Spec)
\* ------------------------------------------------------------------------
\* the left-to-right fold of the single-operation function over ops: the
\* document after each operation was applied to the result of the ones
\* before it
RECURSIVE FoldOps(_, _)
FoldOps(doc, ops) ==
    IF ops = << >> THEN doc
    ELSE FoldOps(apply_op(doc, Head(ops)).doc, Tail(ops))

\* the operations of the request the loop has gone through: all of them, or
\* those up to the one that failed
OpsGoneThrough(r) ==
    SubSeq(req[r].ops, 1, IF hist[r].failedAt # 0 THEN hist[r].failedAt ELSE hist[r].applied)

\* C14: the operations of a request are applied in the order supplied, each
\* to the document as the earlier ones left it: the document of the request
\* is the left-to-right fold of the single-operation function over the
\* operations gone through so far, starting from the document loaded, and
\* the document written is the fold over the whole list.
OrderedApplication ==
    \A r \in Reqs :
        /\ pc[r] \in {"mutate", "persist", "done"}
           => loc[r].stats = FoldOps(hist[r].loaded, OpsGoneThrough(r))
        /\ (pc[r] = "done" /\ resp[r].status = 200)
           => /\ OpsGoneThrough(r) = req[r].ops
              /\ resp[r].stats = json_roundtrip(FoldOps(hist[r].loaded, req[r].ops))
              /\ ~resp[r].dryRun => store.doc = resp[r].stats

\* C14 witness: a request has answered 200 after Set and then Inc on the
\* same path, with the set value plus the increment at the path, which is
\* not what the two operations give in the other order
OrderedApplicationWitness ==
    \E r \in Reqs :
        /\ pc[r] = "done"
        /\ resp[r].status = 200
        /\ req[r].nOps = 2
        /\ req[r].ops[1].op = "set"
        /\ req[r].ops[2].op = "inc"
        /\ req[r].ops[1].path = req[r].ops[2].path
        /\ ValueAt(resp[r].stats, req[r].ops[1].path.frags) = Num(req[r].ops[1].value.n + 1)
        /\ FoldOps(hist[r].loaded, <<req[r].ops[2], req[r].ops[1]>>) # loc[r].stats

\* C17: in every reachable state the document a request has loaded, is
\* mutating, returns or has persisted has an Object at its root, and so has
\* every blob in the store, also after operations whose path starts with an
\* index-like segment.
RootIsObject ==
    /\ store.doc.t = "obj"
    /\ \A r \in Reqs :
          /\ hist[r].loaded.t = "obj"
          /\ loc[r].stats.t = "obj"
          /\ (pc[r] = "done" /\ resp[r].status = 200) => resp[r].stats.t = "obj"

\* C17 witness: a request whose first operation has a path starting with an
\* index-like segment has applied it and written its document
RootIsObjectWitness ==
    \E r \in Reqs :
        /\ pc[r] = "done"
        /\ resp[r].status = 200
        /\ ~resp[r].dryRun
        /\ req[r].nOps >= 1
        /\ req[r].ops[1].path.frags[1] \in IndexSegs
        /\ store.exists
        /\ store.doc = resp[r].stats

\* where a request may be after a step, by where it was: Loading is "head"
\* and "get", Checking "check", Mutating "mutate", Persisting or
\* DryRunReturn "persist", Done "done"
NextPhases(p) ==
    CASE p = "idle" -> {"head", "done"}
      [] p = "head" -> {"get", "check"}
      [] p = "get" -> {"check"}
      [] p = "check" -> {"mutate", "persist", "done"}
      [] p = "mutate" -> {"mutate", "persist", "done"}
      [] p = "persist" -> {"done"}
      [] p = "done" -> {"idle"}

\* the phases are gone through in their order, and the response is set when,
\* and only when, Done is entered
PhaseStep(r) ==
    /\ pc'[r] # pc[r] => pc'[r] \in NextPhases(pc[r])
    /\ resp'[r] # resp[r]
       => \/ pc[r] # "done" /\ pc'[r] = "done" /\ resp[r] = NoResp
          \/ pc[r] = "done" /\ pc'[r] = "idle" /\ resp'[r] = NoResp

\* the Not-Found and Conflict checks, on what the request loaded
ChecksPassed(r) ==
    /\ Truthy(hist[r].loaded) \/ req[r].createIfMissing
    /\ ~(req[r].hasIfMatch /\ loc[r].etag # NoEtag /\ req[r].ifMatchEtag # loc[r].etag)

\* a response exists exactly in Done; the write is called at most once, in
\* the last step, after the checks have passed and every operation has been
\* applied without error
WriteDiscipline(r) ==
    /\ (pc[r] = "done") = (resp[r] # NoResp)
    /\ pc[r] = "done" => resp[r].status \in {200, 400, 500}
    /\ hist[r].puts <= 1
    /\ pc[r] \in {"mutate", "persist"} => ChecksPassed(r)
    /\ pc[r] = "persist" => hist[r].applied = req[r].nOps /\ hist[r].failedAt = 0
    /\ hist[r].puts = 1
       => /\ pc[r] = "done"
          /\ ChecksPassed(r)
          /\ hist[r].applied = req[r].nOps
          /\ hist[r].failedAt = 0
    /\ (pc[r] = "done" /\ resp[r].status = 200)
       => /\ ChecksPassed(r)
          /\ hist[r].applied = req[r].nOps
          /\ hist[r].puts = IF resp[r].dryRun THEN 0 ELSE 1

NeededShape(seg) == IF seg \in IndexSegs THEN "arr" ELSE "obj"

\* the first n segments of the path of the last operation
PathPrefix(n) == SubSeq(eng.op.path.frags, 1, n)

\* before the last operation, the position segment i of its path is applied
\* to held a value of the wrong shape for that segment
WrongShapeAt(i) ==
    LET found == ValueAt(Seen(eng.pre), PathPrefix(i - 1))
    IN found # Absent /\ found.t # NeededShape(eng.op.path.frags[i])

\* C15: when, during the resolution of the path of a Set, the value at an
\* intermediate position (below the root) has the wrong shape for the
\* segment applied to it, the Set succeeds, the positions along the path
\* hold containers of the shapes the segments need, and following the path
\* from the root reaches the value written.
DestructiveReplaceInPlace ==
    LET n == Len(eng.op.path.frags)
    IN ( /\ LastOpIs("set")
         /\ GoodPath(eng.op.path)
         /\ eng.op.value.t # "missing"
         /\ \E i \in 2..(n - 1) : WrongShapeAt(i) )
       => /\ eng.err = "ok"
          /\ TargetAfter = eng.op.value
          /\ \A i \in 2..(n - 1) :
                ValueAt(Seen(eng.doc), PathPrefix(i - 1)).t = NeededShape(eng.op.path.frags[i])

\* C16: after a successful Set, every Array on the path that was too short
\* for the index segment applied to it has length index+1, its previous
\* elements where they were, and null in every new slot other than the
\* addressed one.
ArrayExtensionWithNulls ==
    ( /\ LastOpIs("set")
      /\ GoodPath(eng.op.path)
      /\ eng.err = "ok" )
    => \A i \in 2..Len(eng.op.path.frags) :
          LET seg == eng.op.path.frags[i]
              before == ValueAt(Seen(eng.pre), PathPrefix(i - 1))
              after == ValueAt(Seen(eng.doc), PathPrefix(i - 1))
          IN ( /\ seg \in IndexSegs
               /\ before.t = "arr"
               /\ Len(before.e) <= ToInt(seg) )
             => /\ after.t = "arr"
                /\ Len(after.e) = ToInt(seg) + 1
                /\ \A j \in 1..Len(before.e) : after.e[j] = before.e[j]
                /\ \A j \in (Len(before.e) + 1)..ToInt(seg) : after.e[j] = Null

\* ------------------------------------------------------------------------
\* Properties of invocations running at the same time (checked under
\* ConcSpec)
\* ------------------------------------------------------------------------
\* C18: the version check is advisory and the write unconditional: a write
\* that the store does not fail is carried out, and the request answers 200
\* with the new tag, whatever tag the blob has when the write is called,
\* also when it is no longer the tag the request read and checked.  (The
\* state the claim says is reachable is the witness.)
AdvisoryVersionCheck ==
    \A r \in Reqs :
        (pc[r] = "done" /\ hist[r].puts = 1 /\ ~hist[r].putFault)
        => /\ resp[r].status = 200
           /\ ~resp[r].dryRun
           /\ resp[r].etag = hist[r].tagAtPut + 1
           /\ store.etag >= resp[r].etag

\* C18 witness: two requests read the same revision of the blob, both carry
\* the tag they read as ifMatchEtag, both pass the check and both write; the
\* blob is the document of the later writer and does not hold the update of
\* the earlier one
LostUpdateWitness ==
    \E r1, r2 \in Reqs :
        /\ r1 # r2
        /\ \A r \in {r1, r2} :
              /\ pc[r] = "done"
              /\ resp[r].status = 200
              /\ ~resp[r].dryRun
              /\ hist[r].puts = 1
              /\ req[r].hasIfMatch
              /\ req[r].ifMatchEtag = loc[r].etag
              /\ loc[r].etag = hist[r].bodyTag
              /\ loc[r].etag # NoEtag
        /\ hist[r1].bodyTag = hist[r2].bodyTag
        /\ hist[r1].tagAtPut < hist[r2].tagAtPut
        /\ req[r1].ops = <<OpRec("inc", PathOf(<<"a">>), Missing, Missing)>>
        /\ store.doc = resp[r2].stats
        /\ ValueAt(store.doc, <<"a">>) = Absent

\* C19: under any interleaving with other writers, the tag a request
\* compares with ifMatchEtag is the tag of the revision whose body it read,
\* goes on to mutate and writes back.  (Runs in which the load of a request
\* raised are left aside.)
SnapshotConsistency ==
    \A r \in Reqs :
        ( /\ pc[r] \in {"check", "mutate", "persist", "done"}
          /\ \A q \in Reqs : ~hist[q].loadFailed )
        => loc[r].etag = hist[r].bodyTag

====
